---------------------------- MODULE Spec2Model ----------------------------
(***************************************************************************)
(* Model of the data-analysis engine (src/src/utils/dataAnalysis.js), of  *)
(* the chart builder on top of it (src/src/utils/chartGeneration.js) and   *)
(* of the operations view that drives the analyzer                         *)
(* (src/src/pages/TrafficControlTower.jsx with the fetch service           *)
(* src/unnamed/part_002).                                                  *)
(*                                                                         *)
(* Representation.                                                         *)
(*  - A JavaScript string is a sequence of one-character strings, so that  *)
(*    toLowerCase, includes, template concatenation and split act on       *)
(*    characters as they do in the code.                                   *)
(*  - A cell value is a record tagged by k:                                *)
(*      "date"    a string in one of the accepted date formats that is a   *)
(*                valid date; ms is its time value (ms since the epoch)    *)
(*      "baddate" a string that matches a date format pattern but is no    *)
(*                valid date (e.g. "0000-00-00")                           *)
(*      "text"    any other string, s its characters; the model's texts    *)
(*                start with a letter, hold no blank, and are neither      *)
(*                numeric nor parseable as dates                           *)
(*      "digits"  a string of seven or more decimal digits, n its number   *)
(*      "num"     a number n (a natural)                                   *)
(*      "null", "undef", "empty" (the empty string)                        *)
(*  - A row is NullRow (a null entry of the array) or Row(cells), cells    *)
(*    the sequence of <<column name, value>> pairs in key order.           *)
(*  - Times and durations are exact: a duration in minutes is held as its  *)
(*    numerator over MsPerMinute, i.e. in milliseconds, so "turnaround >   *)
(*    90" reads "turnaround > 90 * MsPerMinute".                           *)
(*  - Percentages are held in tenths of a percent (the code keeps one      *)
(*    decimal), utilization as the pair count / maxCount.                  *)
(***************************************************************************)
EXTENDS Integers, Sequences, FiniteSets, TLC

VARIABLES
    mode,            \* which family of inputs this behaviour draws from
    engine,          \* the JavaScript engine's Date.parse of numerals
    data,            \* the dataset handed to the analyzer
    batches,         \* number of AddRows steps taken
    result,          \* what analyzeTrafficControlTower returned (NoResult before)
    inflight,        \* view: ids of the loads whose fetch has not resolved
    started,         \* view: number of loads started so far
    loading,         \* view: the loading flag
    viewData,        \* view: the data state
    trafficAnalysis, \* view: the trafficAnalysis state (NoResult = null)
    shownLoad,       \* view: id of the load that wrote the display state
    lastResolved,    \* view: id of the load that resolved last while mounted
    lastOutcome,     \* view: what that load's fetch produced
    mounted          \* view: the component is mounted (timer armed)

vars == <<mode, engine, data, batches, result, inflight, started, loading,
          viewData, trafficAnalysis, shownLoad, lastResolved, lastOutcome,
          mounted>>

analysisVars == <<mode, engine, data, batches, result>>
viewVars == <<inflight, started, loading, viewData, trafficAnalysis,
              shownLoad, lastResolved, lastOutcome, mounted>>

-----------------------------------------------------------------------------
(* Bounds of the model *)

MaxRows == 3        \* rows of a dataset built row by row
MaxBatches == 2     \* runs of equal rows in a dataset built from runs
MaxLoads == 2       \* loads the view starts
MaxBlocks == 3      \* blocks of records of a dataset to classify

(* Program constants *)

MsPerMinute == 60000
SampleSize == 10
TypeSample == 5
StuckThresholdMinutes == 90
NormalMinutes == 45
CriticalMinutes == 180
HeavyCount == 10
ModerateCount == 5
MaxOrdinalUnique == 20
MaxCategories == 10
MaxLegendFields == 10
LargeDataset == 10000

-----------------------------------------------------------------------------
(* Strings *)

UpperChars == <<"A","B","C","D","E","F","G","H","I","J","K","L","M",
                "N","O","P","Q","R","S","T","U","V","W","X","Y","Z">>
LowerChars == <<"a","b","c","d","e","f","g","h","i","j","k","l","m",
                "n","o","p","q","r","s","t","u","v","w","x","y","z">>

ToLowerChar(c) ==
    IF \E i \in 1..Len(UpperChars) : UpperChars[i] = c
    THEN LowerChars[CHOOSE i \in 1..Len(UpperChars) : UpperChars[i] = c]
    ELSE c

toLowerCase(s) == [i \in 1..Len(s) |-> ToLowerChar(s[i])]

includes(s, sub) ==
    \E i \in 0..(Len(s) - Len(sub)) : SubSeq(s, i + 1, i + Len(sub)) = sub

DigitChars == <<"0","1","2","3","4","5","6","7","8","9">>

RECURSIVE NatToString(_)
NatToString(n) ==
    IF n < 10 THEN <<DigitChars[n + 1]>>
    ELSE NatToString(n \div 10) \o <<DigitChars[(n % 10) + 1]>>

IsDigitString(s) ==
    /\ Len(s) > 0
    /\ \A i \in 1..Len(s) : \E d \in 1..10 : DigitChars[d] = s[i]

\* A canonical array index / integer-like property key: "0", or digits with
\* no leading zero.
IsIntegerKey(s) == IsDigitString(s) /\ (Len(s) = 1 \/ s[1] # "0")

\* An object literal {} inherits the properties of Object.prototype: reading
\* obj[k] for such a name k (constructor, toString, valueOf, ...) yields the
\* inherited function, a truthy value, although obj has no own property k.
\* The name constructor stands for all of them.
s_constructor == <<"c","o","n","s","t","r","u","c","t","o","r">>
InheritedKeys == {s_constructor}

RECURSIVE StringToNat(_)
StringToNat(s) ==
    IF Len(s) = 0 THEN 0
    ELSE 10 * StringToNat(SubSeq(s, 1, Len(s) - 1))
         + (CHOOSE d \in 0..9 : DigitChars[d + 1] = s[Len(s)])

\* s.split("_")
RECURSIVE split(_)
split(s) ==
    IF \E i \in 1..Len(s) : s[i] = "_"
    THEN LET i == CHOOSE j \in 1..Len(s) :
                      s[j] = "_" /\ \A h \in 1..(j - 1) : s[h] # "_"
         IN <<SubSeq(s, 1, i - 1)>> \o split(SubSeq(s, i + 1, Len(s)))
    ELSE <<s>>

-----------------------------------------------------------------------------
(* Values and rows *)

Null == [k |-> "null"]
Undef == [k |-> "undef"]
EmptyStr == [k |-> "empty"]
DateV(ms) == [k |-> "date", ms |-> ms]
BadDate == [k |-> "baddate"]
Text(s) == [k |-> "text", s |-> s]
Num(n) == [k |-> "num", n |-> n]
\* a string of seven or more decimal digits: a number to parseFloat, and to
\* Date.parse a year no engine can represent
Digits(n) == [k |-> "digits", n |-> n]

NullRow == [null |-> TRUE, cells |-> <<>>]
Row(cells) == [null |-> FALSE, cells |-> cells]

IsString(v) == v.k \in {"date", "baddate", "text", "digits", "empty"}

\* JavaScript truthiness of a cell value
Truthy(v) ==
    CASE v.k \in {"null", "undef", "empty"} -> FALSE
      [] v.k = "num" -> v.n # 0
      [] OTHER -> TRUE

\* row[field]: the property of that name, undefined when the row lacks it
Get(row, field) ==
    IF \E i \in 1..Len(row.cells) : row.cells[i][1] = field
    THEN row.cells[CHOOSE i \in 1..Len(row.cells) : row.cells[i][1] = field][2]
    ELSE Undef

\* Object.keys(row || {})
Keys(row) == [i \in 1..Len(row.cells) |-> row.cells[i][1]]

\* fields.filter(Test), Test given as the set of accepted elements
SelectSeqBy(s, S) == SelectSeq(s, LAMBDA x : x \in S)

Range(s) == {s[i] : i \in 1..Len(s)}

\* The same sequence, resp. function, evaluated once instead of at each use
Eager(s) == s \o <<>>
EagerFn(f) == f @@ <<>>

-----------------------------------------------------------------------------
(* Dates *)

\* Date.parse of the numeral of n is implementation-defined (the string is in
\* no format ECMAScript specifies). V8's legacy parser reads a lone number as a
\* month (1..12), or as a year when it is no day of a month (0, 32 and up),
\* and rejects 13..31; a strict engine rejects every lone number. No engine
\* has a date past the year 275760.
DateParseNumeral(n, eng) ==
    IF eng = "v8" THEN n \in 0..12 \/ n \in 32..275760 ELSE FALSE

\* !isNaN(Date.parse(value)) for a string value
DateParseString(v) == v.k = "date"

\* !isNaN(new Date(value).getTime()): a number is a time value, null
\* converts to 0, undefined and unparseable strings give an Invalid Date
ValidDate(v) == v.k \in {"date", "num", "null"}

\* new Date(value).getTime() of a value with ValidDate
TimeOf(v) ==
    CASE v.k = "date" -> v.ms
      [] v.k = "num" -> v.n
      [] OTHER -> 0

-----------------------------------------------------------------------------
(* Numbers that are not integers *)

Ratio(n, d) == [num |-> n, den |-> d]      \* n / d; d = 0 stands for NaN (0 / 0)
Fin(x) == [fin |-> TRUE, v |-> x]
PosInfinity == [fin |-> FALSE, v |-> 1]
NegInfinity == [fin |-> FALSE, v |-> -1]

\* s[lo] + ... + s[hi], halving the range so that long sequences do not nest
\* the evaluation element by element
RECURSIVE SumRange(_, _, _)
SumRange(s, lo, hi) ==
    IF lo > hi THEN 0
    ELSE IF lo = hi THEN s[lo]
    ELSE LET mid == (lo + hi) \div 2
         IN SumRange(s, lo, mid) + SumRange(s, mid + 1, hi)
SeqSum(s) == SumRange(s, 1, Len(s))

SetMax(S) == CHOOSE x \in S : \A y \in S : y <= x
SetMin(S) == CHOOSE x \in S : \A y \in S : x <= y

-----------------------------------------------------------------------------
(* Field type inference *)

Missing(v) == v.k \in {"null", "undef", "empty"}

\* one of the dateFormats patterns matches the string
MatchesDateFormat(v) == v.k \in {"date", "baddate"}

\* parseFloat(value) is a finite number: numbers, and strings that start
\* with digits (every string in a date format does)
ParsesAsNumber(v) == v.k \in {"num", "date", "baddate", "digits"}

FirstN(s, n) == SubSeq(s, 1, IF Len(s) < n THEN Len(s) ELSE n)

isTemporalField(values, eng) ==
    LET sample == FirstN(values, TypeSample)
    IN \A i \in 1..Len(sample) :
          LET value == sample[i]
          IN IF IsString(value)
             THEN MatchesDateFormat(value) \/ DateParseString(value)
             ELSE value.k = "num" /\ DateParseNumeral(value.n, eng)

isQuantitativeField(values) ==
    LET sample == FirstN(values, TypeSample)
    IN \A i \in 1..Len(sample) : ParsesAsNumber(sample[i])

\* uniqueRatio < 0.5, uniqueRatio = uniqueCount / totalCount
RatioBelowHalfOrEqual(uniqueCount, totalCount) == 2 * uniqueCount <= totalCount
RatioBelowHalf(uniqueCount, totalCount) == 2 * uniqueCount < totalCount

\* the type analyzeFieldType returns
analyzeFieldType(values, eng) ==
    LET uniqueCount == Cardinality(Range(values))
        totalCount == Len(values)
    IN IF isTemporalField(values, eng) THEN "temporal"
       ELSE IF isQuantitativeField(values) THEN "quantitative"
       ELSE IF uniqueCount <= MaxOrdinalUnique
               /\ RatioBelowHalf(uniqueCount, totalCount)
            THEN "ordinal"
       ELSE "nominal"

\* [...new Set(values)]: the distinct values in the order of their first
\* occurrence
UniqueValues(values) ==
    LET firsts == {i \in 1..Len(values) :
                      \A j \in 1..(i - 1) : values[j] # values[i]}
        idx == SelectSeq([i \in 1..Len(values) |-> i], LAMBDA i : i \in firsts)
    IN [r \in 1..Len(idx) |-> values[idx[r]]]

\* parseFloat(value) where it is a number: the number itself, the digits of a
\* digit string, the leading digits of a date string (the model's date
\* strings are ISO strings of instants in 1970; "0000-00-00" stands for the
\* invalid ones)
ParseFloat(v) ==
    CASE v.k \in {"num", "digits"} -> v.n
      [] v.k = "date" -> 1970
      [] OTHER -> 0

\* the stats analyzeFieldType returns
analyzeFieldStats(values, eng) ==
    LET uniqueValues == UniqueValues(values)
        uniqueCount == Len(uniqueValues)
        totalCount == Len(values)
        uniqueRatio == Ratio(uniqueCount, totalCount)
        type == analyzeFieldType(values, eng)
        parsed == SelectSeq(values, ParsesAsNumber)
        numericValues == [i \in 1..Len(parsed) |-> ParseFloat(parsed[i])]
    IN CASE type = "temporal" ->
              [uniqueCount |-> uniqueCount, totalCount |-> totalCount,
               uniqueRatio |-> uniqueRatio]
         [] type = "quantitative" ->
              [uniqueCount |-> uniqueCount, totalCount |-> totalCount,
               uniqueRatio |-> uniqueRatio,
               min |-> SetMin(Range(numericValues)),
               max |-> SetMax(Range(numericValues)),
               avg |-> Ratio(SeqSum(numericValues), Len(numericValues))]
         [] type = "ordinal" ->
              [uniqueCount |-> uniqueCount, totalCount |-> totalCount,
               uniqueRatio |-> uniqueRatio, categories |-> uniqueValues]
         [] OTHER ->
              [uniqueCount |-> uniqueCount, totalCount |-> totalCount,
               uniqueRatio |-> uniqueRatio,
               categories |-> FirstN(uniqueValues, MaxCategories)]

NonMissing(values) == SelectSeq(values, LAMBDA v : ~Missing(v))

\* sample.map(row => row[field]) reads a property of every sampled row and
\* throws a TypeError on a null row
analyzeDataStructureThrows(d) ==
    /\ Len(d) > 0
    /\ Keys(d[1]) # <<>>
    /\ \E i \in 1..Len(FirstN(d, SampleSize)) : d[i].null

\* data.slice(0, sampleSize), and the whole dataset instead
SampleOfAll(d) == d
SampleOf(d) == FirstN(d, SampleSize)

\* sample.map(row => row[field]) without the missing values
SampledValues(sample, f) ==
    NonMissing([i \in 1..Len(sample) |-> Get(sample[i], f)])

EmptyStats == [type |-> "empty", uniqueCount |-> 0]

analyzeDataStructure(d, eng) ==
    IF Len(d) = 0
    THEN [fields |-> <<>>, fieldTypes |-> <<>>, analysis |-> [isEmpty |-> TRUE]]
    ELSE
      LET sample == SampleOf(d)
          fields == Keys(sample[1])
          valuesOf(f) == SampledValues(sample, f)
          fieldTypes == EagerFn([f \in Range(fields) |->
                           IF Len(valuesOf(f)) = 0 THEN "nominal"
                           ELSE analyzeFieldType(valuesOf(f), eng)])
          fieldStats == EagerFn([f \in Range(fields) |->
                           IF Len(valuesOf(f)) = 0 THEN EmptyStats
                           ELSE analyzeFieldStats(valuesOf(f), eng)])
          ofType(t) == SelectSeqBy(fields, {f \in Range(fields) : fieldTypes[f] = t})
      IN [fields |-> fields,
          fieldTypes |-> fieldTypes,
          fieldStats |-> fieldStats,
          analysis |-> [isEmpty |-> FALSE,
                        recordCount |-> Len(d),
                        quantitativeFields |-> ofType("quantitative"),
                        nominalFields |-> ofType("nominal"),
                        temporalFields |-> ofType("temporal"),
                        ordinalFields |-> ofType("ordinal")]]

-----------------------------------------------------------------------------
(* JavaScript objects used as maps: a sequence of <<key, value>> pairs in  *)
(* the order Object.entries enumerates them (integer-like keys ascending,  *)
(* then the other keys in insertion order).                                *)

\* String(value), the property key a value becomes. The characters of a date
\* string are not modelled: it is one token followed by its time value, which
\* holds no underscore, as no accepted date format does.
ToKey(v) ==
    CASE v.k = "text" -> v.s
      [] v.k = "num" -> NatToString(v.n)
      [] v.k = "digits" -> NatToString(v.n)
      [] v.k = "date" -> <<"date:">> \o NatToString(v.ms)
      [] v.k = "baddate" -> <<"baddate">>
      [] v.k = "null" -> <<"n","u","l","l">>
      [] v.k = "undef" -> <<"u","n","d","e","f","i","n","e","d">>
      [] OTHER -> <<>>

-----------------------------------------------------------------------------
(* Terminal operations analyzer *)

s_lane == <<"l","a","n","e">>
s_bay == <<"b","a","y">>
s_dock == <<"d","o","c","k">>
s_gate == <<"g","a","t","e">>
s_shipment == <<"s","h","i","p","m","e","n","t">>
s_ticket == <<"t","i","c","k","e","t">>
s_load == <<"l","o","a","d">>
s_truck == <<"t","r","u","c","k">>
s_shipment_id == <<"s","h","i","p","m","e","n","t","_","i","d">>
s_ticket_id == <<"t","i","c","k","e","t","_","i","d">>
s_Unknown == <<"U","n","k","n","o","w","n">>
s_NaN == <<"N","a","N">>

IsLaneField(f) ==
    \/ includes(toLowerCase(f), s_lane)
    \/ includes(toLowerCase(f), s_bay)
    \/ includes(toLowerCase(f), s_dock)
    \/ includes(toLowerCase(f), s_gate)

IsShipmentField(f) ==
    \/ includes(toLowerCase(f), s_shipment)
    \/ includes(toLowerCase(f), s_ticket)
    \/ includes(toLowerCase(f), s_load)
    \/ includes(toLowerCase(f), s_truck)

laneFieldsOf(fields) == SelectSeqBy(fields, {f \in Range(fields) : IsLaneField(f)})

shipmentFieldsOf(fields) ==
    SelectSeqBy(fields, {f \in Range(fields) : IsShipmentField(f)})

\* The object a loop over the rows builds when it adds 1 at the key of every
\* row that has one: <<key, <<index of the first such row, count, index of
\* the last such row>>>> in enumeration order. keyAt[i] is the key of row i, idx the rows that have one.
\* (Stated over the indexes, not as a recursion over the rows, so that long
\* datasets do not nest the evaluation row by row.)
CountByKey(keyAt, idx) ==
    LET keys == {keyAt[i] : i \in idx}
        rows == EagerFn([k \in keys |-> {i \in idx : keyAt[i] = k}])
        first == EagerFn([k \in keys |-> SetMin(rows[k])])
        ints == {k \in keys : IsIntegerKey(k)}
        strs == keys \ ints
        intVal == EagerFn([k \in ints |-> StringToNat(k)])
        rank == EagerFn([k \in ints |->
                    Cardinality({h \in ints : intVal[h] <= intVal[k]})])
        intSeq == [r \in 1..Cardinality(ints) |-> CHOOSE k \in ints : rank[k] = r]
        firsts == {first[k] : k \in strs}
        strRows == SelectSeq([i \in 1..Len(keyAt) |-> i], LAMBDA i : i \in firsts)
        strSeq == [r \in 1..Len(strRows) |-> keyAt[strRows[r]]]
        order == Eager(intSeq \o strSeq)
    IN Eager([r \in 1..Len(order) |->
                <<order[r], <<first[order[r]], Cardinality(rows[order[r]]),
                              SetMax(rows[order[r]])>>>>])

calculateLaneMetrics(d, laneFields) ==
    IF Len(laneFields) = 0 THEN <<>>
    ELSE LET primaryLane == laneFields[1]
             lane == Eager([i \in 1..Len(d) |-> Get(d[i], primaryLane)])
             \* !laneStats[lane] is false for an inherited name: no entry is
             \* created, and totalShipments++ lands on the inherited function
             counted == CountByKey(Eager([i \in 1..Len(d) |-> ToKey(lane[i])]),
                                   {i \in 1..Len(d) :
                                       /\ Truthy(lane[i])
                                       /\ ToKey(lane[i]) \notin InheritedKeys})
         IN [r \in 1..Len(counted) |->
               <<counted[r][1],
                 [name |-> lane[counted[r][2][1]],
                  totalShipments |-> counted[r][2][2],
                  avgWaitTime |-> 0,
                  efficiency |-> "A",
                  congestionLevel |-> "Normal"]>>]

MsPerHour == 3600000

\* new Date(timestamp).getHours() as a string; the zone of the browser is
\* taken to be UTC
HourKey(timestamp) ==
    IF ValidDate(timestamp)
    THEN NatToString((TimeOf(timestamp) \div MsPerHour) % 24)
    ELSE s_NaN

\* congestionMap: the count of rows per key `${lane}_${hour}`
CongestionMapOf(d, primaryLane, primaryTime) ==
    LET lane == Eager([i \in 1..Len(d) |-> Get(d[i], primaryLane)])
        timestamp == Eager([i \in 1..Len(d) |-> Get(d[i], primaryTime)])
        counted == CountByKey(
            Eager([i \in 1..Len(d) |->
                      ToKey(lane[i]) \o <<"_">> \o HourKey(timestamp[i])]),
            {i \in 1..Len(d) : Truthy(lane[i]) /\ Truthy(timestamp[i])})
    IN [r \in 1..Len(counted) |-> <<counted[r][1], counted[r][2][2]>>]

CongestionLevelFrom10(count) ==
    IF count >= HeavyCount THEN "Heavy"
    ELSE IF count > ModerateCount THEN "Moderate"
    ELSE "Normal"

CongestionLevel(count) ==
    IF count > HeavyCount THEN "Heavy"
    ELSE IF count > ModerateCount THEN "Moderate"
    ELSE "Normal"

\* congestionLevels: every entry of congestionMap is stored at [lane][hour],
\* lane and hour the first two parts of its key; a later entry for the same
\* lane and hour replaces the earlier one in place
CongestionLevelsOf(congestionMap) ==
    LET n == Len(congestionMap)
        parts == Eager([i \in 1..n |-> split(congestionMap[i][1])])
        laneAt == Eager([i \in 1..n |-> parts[i][1]])
        hourAt == Eager([i \in 1..n |-> parts[i][2]])
        \* !congestionLevels[lane] is false for an inherited name: the bucket
        \* is stored on the inherited function, not in the result
        lanes == CountByKey(laneAt, {i \in 1..n : laneAt[i] \notin InheritedKeys})
        hoursOf(lane) == CountByKey(hourAt, {i \in 1..n : laneAt[i] = lane})
        info(i) == [count |-> congestionMap[i][2],
                    level |-> CongestionLevel(congestionMap[i][2])]
    IN Eager([r \in 1..Len(lanes) |->
                <<lanes[r][1],
                  LET hours == hoursOf(lanes[r][1])
                  IN Eager([h \in 1..Len(hours) |->
                              <<hours[h][1], info(hours[h][2][3])>>])>>])

analyzeCongestion(d, laneFields, timeFields) ==
    IF Len(laneFields) = 0 \/ Len(timeFields) = 0 THEN <<>>
    ELSE CongestionLevelsOf(CongestionMapOf(d, laneFields[1], timeFields[1]))

NullValue == [isNull |-> TRUE]

\* row.shipment_id || row.ticket_id || 'Unknown'
ShipmentIdOf(row) ==
    IF Truthy(Get(row, s_shipment_id)) THEN Get(row, s_shipment_id)
    ELSE IF Truthy(Get(row, s_ticket_id)) THEN Get(row, s_ticket_id)
    ELSE Text(s_Unknown)

TurnaroundEntry(row, startField, endField) ==
    LET startTime == Get(row, startField)
        endTime == Get(row, endField)
    IN [shipmentId |-> ShipmentIdOf(row),
        \* (endTime - startTime) / (1000 * 60), kept over MsPerMinute
        turnaroundMinutes |-> TimeOf(endTime) - TimeOf(startTime),
        startTime |-> TimeOf(startTime),
        endTime |-> TimeOf(endTime)]

HasTurnaroundStartOnly(row, startField, endField) ==
    ValidDate(Get(row, startField))

HasTurnaround(row, startField, endField) ==
    ValidDate(Get(row, startField)) /\ ValidDate(Get(row, endField))

TurnaroundDetailsFrom(d, startField, endField) ==
    LET rows == SelectSeq(d, LAMBDA row : HasTurnaround(row, startField, endField))
    IN Eager([r \in 1..Len(rows) |-> TurnaroundEntry(rows[r], startField, endField)])

\* the object calculateTurnaroundTimes returns for the entries it collected
TurnaroundSummary(turnaroundTimes) ==
    LET minutes == Eager([i \in 1..Len(turnaroundTimes) |->
                             turnaroundTimes[i].turnaroundMinutes])
    IN [isNull |-> FALSE,
        \* the sum over the length: 0 / 0 = NaN when no row qualified
        avgTurnaround |-> Ratio(SeqSum(minutes), Len(minutes)),
        maxTurnaround |-> IF Len(minutes) = 0 THEN NegInfinity
                          ELSE Fin(SetMax(Range(minutes))),
        minTurnaround |-> IF Len(minutes) = 0 THEN PosInfinity
                          ELSE Fin(SetMin(Range(minutes))),
        details |-> turnaroundTimes]

\* without the length test the two fields are undefined, no row has a valid
\* date, and the summary of no entries is returned instead of null
calculateTurnaroundTimesUnguarded(d, timeFields) ==
    IF Len(timeFields) < 2 THEN TurnaroundSummary(<<>>)
    ELSE TurnaroundSummary(TurnaroundDetailsFrom(d, timeFields[1], timeFields[2]))

calculateTurnaroundTimes(d, timeFields) ==
    IF Len(timeFields) < 2 THEN NullValue
    ELSE TurnaroundSummary(TurnaroundDetailsFrom(d, timeFields[1], timeFields[2]))

StuckEntryCriticalFrom180(shipment) ==
    [shipmentId |-> shipment.shipmentId,
     turnaroundMinutes |-> shipment.turnaroundMinutes,
     startTime |-> shipment.startTime,
     endTime |-> shipment.endTime,
     status |-> "DELAYED",
     delayMinutes |-> shipment.turnaroundMinutes - NormalMinutes * MsPerMinute,
     severity |-> IF shipment.turnaroundMinutes >= CriticalMinutes * MsPerMinute
                  THEN "CRITICAL" ELSE "WARNING"]

StuckEntry(shipment) ==
    [shipmentId |-> shipment.shipmentId,
     turnaroundMinutes |-> shipment.turnaroundMinutes,
     startTime |-> shipment.startTime,
     endTime |-> shipment.endTime,
     status |-> "DELAYED",
     delayMinutes |-> shipment.turnaroundMinutes - NormalMinutes * MsPerMinute,
     severity |-> IF shipment.turnaroundMinutes > CriticalMinutes * MsPerMinute
                  THEN "CRITICAL" ELSE "WARNING"]

IsStuckFrom90(shipment) ==
    shipment.turnaroundMinutes >= StuckThresholdMinutes * MsPerMinute

IsStuck(shipment) ==
    shipment.turnaroundMinutes > StuckThresholdMinutes * MsPerMinute

StuckFrom(details) ==
    LET stuck == SelectSeq(details, IsStuck)
    IN [r \in 1..Len(stuck) |-> StuckEntry(stuck[r])]

detectStuckShipments(d, shipmentFields, timeFields) ==
    IF Len(timeFields) < 2 THEN <<>>
    ELSE LET turnaroundData == calculateTurnaroundTimes(d, timeFields)
         IN IF turnaroundData.isNull THEN <<>>
            ELSE StuckFrom(turnaroundData.details)

LaneCountsOf(d, primaryLane) ==
    LET lane == Eager([i \in 1..Len(d) |-> Get(d[i], primaryLane)])
        counted == CountByKey(Eager([i \in 1..Len(d) |-> ToKey(lane[i])]),
                              {i \in 1..Len(d) : Truthy(lane[i])})
    IN [r \in 1..Len(counted) |-> <<counted[r][1], counted[r][2][2]>>]

\* The comparisons of utilization = count / maxCount with 0.9, 0.7, 0.5, 0.3
\* and 0.8 are made on integers: the quotient of two counts is correctly
\* rounded, so it equals the literal when the exact quotient does, and is
\* otherwise further from it than any rounding error.
Grade(count, maxCount) ==
    IF 10 * count >= 9 * maxCount THEN "A"
    ELSE IF 10 * count >= 7 * maxCount THEN "B"
    ELSE IF 10 * count >= 5 * maxCount THEN "C"
    ELSE IF 10 * count >= 3 * maxCount THEN "D"
    ELSE "F"

Efficiency(count, maxCount) ==
    IF 10 * count >= 8 * maxCount THEN "High"
    ELSE IF 10 * count >= 5 * maxCount THEN "Medium"
    ELSE "Low"

\* (laneCounts[lane] || 0) + 1 for an inherited name: the inherited function
\* is truthy, and function + 1 is the function's source text followed by "1";
\* every further record of that lane appends another "1"
SourceTextAnd(count) == [k |-> "text", sourceTextOnes |-> count]

calculateUtilizationScores(d, laneFields) ==
    IF Len(laneFields) = 0 THEN <<>>
    ELSE LET laneCounts == LaneCountsOf(d, laneFields[1])
             inherited == {i \in 1..Len(laneCounts) :
                              laneCounts[i][1] \in InheritedKeys}
         IN IF inherited = {}
            THEN LET maxCount == SetMax({laneCounts[i][2] :
                                            i \in 1..Len(laneCounts)})
                 IN [i \in 1..Len(laneCounts) |->
                       LET count == laneCounts[i][2]
                       IN <<laneCounts[i][1],
                            [grade |-> Grade(count, maxCount),
                             utilization |-> Ratio(count * 100, maxCount),
                             shipmentCount |-> count,
                             efficiency |-> Efficiency(count, maxCount)]>>]
            \* Math.max of a list holding that text is NaN: count / NaN is
            \* NaN for every lane, no comparison with it holds
            ELSE [i \in 1..Len(laneCounts) |->
                    <<laneCounts[i][1],
                      [grade |-> "F",
                       utilization |-> Ratio(0, 0),
                       shipmentCount |->
                           IF i \in inherited
                           THEN SourceTextAnd(laneCounts[i][2])
                           ELSE laneCounts[i][2],
                       efficiency |-> "Low"]>>]

\* The alert's message and timestamp are renderings of the fields below and of
\* the wall clock; they are not modelled.
DelayAlert(shipment) ==
    [type |-> "DELAY", severity |-> shipment.severity, data |-> shipment]

CongestionAlert(lane, hour, info) ==
    [type |-> "CONGESTION", severity |-> "WARNING",
     data |-> [lane |-> lane, hour |-> hour, count |-> info.count]]

RECURSIVE HourAlertsFromModerate(_, _, _)
HourAlertsFromModerate(lane, hours, j) ==
    IF j > Len(hours) THEN <<>>
    ELSE (IF hours[j][2].level # "Normal"
          THEN <<CongestionAlert(lane, hours[j][1], hours[j][2])>> ELSE <<>>)
         \o HourAlertsFromModerate(lane, hours, j + 1)

RECURSIVE HourAlertsFrom(_, _, _)
HourAlertsFrom(lane, hours, j) ==
    IF j > Len(hours) THEN <<>>
    ELSE (IF hours[j][2].level = "Heavy"
          THEN <<CongestionAlert(lane, hours[j][1], hours[j][2])>> ELSE <<>>)
         \o HourAlertsFrom(lane, hours, j + 1)

RECURSIVE CongestionAlertsFrom(_, _)
CongestionAlertsFrom(congestion, i) ==
    IF i > Len(congestion) THEN <<>>
    ELSE HourAlertsFrom(congestion[i][1], congestion[i][2], 1)
         \o CongestionAlertsFrom(congestion, i + 1)

generateTrafficAlerts(d, laneFields, timeFields) ==
    LET stuckShipments == detectStuckShipments(d, <<>>, timeFields)
        congestion == analyzeCongestion(d, laneFields, timeFields)
    IN [i \in 1..Len(stuckShipments) |-> DelayAlert(stuckShipments[i])]
       \o CongestionAlertsFrom(congestion, 1)

\* Math.round(n / d) for d > 0: the nearest integer, halves towards +Infinity
RoundDiv(n, d) == (n \div d) + (IF 2 * (n % d) >= d THEN 1 ELSE 0)

OnTimeTenthsTruncated(total, stuck) == (1000 * (total - stuck)) \div total

\* parseFloat(x.toFixed(1)) in tenths, x = (total - stuck) / total * 100.
\* toFixed rounds the value of the double to the nearest tenth, a tie to the
\* larger. The exact ratio is a tie only when its reduced denominator is 16,
\* 80, 400 or 2000; for 16 the double is exact and the tie goes up, as here.
\* (For 80, 400 and 2000 the double may fall on either side of the tie; the
\* datasets of the model hold no such totals.)
OnTimeTenths(total, stuck) == RoundDiv(1000 * (total - stuck), total)

EfficiencyLabel(onTimeTenths) ==
    IF onTimeTenths > 900 THEN "Excellent"
    ELSE IF onTimeTenths > 800 THEN "Good"
    ELSE IF onTimeTenths > 700 THEN "Fair"
    ELSE "Poor"

calculateTrafficKPIs(d, laneFields, timeFields) ==
    LET totalShipments == Len(d)
        uniqueLanes ==
            IF Len(laneFields) > 0
            THEN Cardinality({Get(d[i], laneFields[1]) : i \in 1..Len(d)}
                             \ {v \in {Get(d[i], laneFields[1]) : i \in 1..Len(d)} :
                                  ~Truthy(v)})
            ELSE 0
        turnaroundData == calculateTurnaroundTimes(d, timeFields)
        stuckCount == Len(detectStuckShipments(d, <<>>, timeFields))
        onTimePercentage == IF totalShipments > 0
                            THEN OnTimeTenths(totalShipments, stuckCount)
                            ELSE 1000
    IN [totalShipments |-> totalShipments,
        activeLanes |-> uniqueLanes,
        \* avgTurnaround ? Math.round(avgTurnaround) : null; null, NaN and 0
        \* are falsy
        avgTurnaroundMinutes |->
            IF turnaroundData.isNull THEN NullValue
            ELSE IF turnaroundData.avgTurnaround.den = 0
                    \/ turnaroundData.avgTurnaround.num = 0 THEN NullValue
            ELSE Fin(RoundDiv(turnaroundData.avgTurnaround.num,
                              turnaroundData.avgTurnaround.den * MsPerMinute)),
        onTimePercentage |-> onTimePercentage,
        delayedShipments |-> stuckCount,
        operationalEfficiency |-> EfficiencyLabel(onTimePercentage)]

\* A property read on a null row throws a TypeError: in the sample of
\* analyzeDataStructure, and in every loop over the rows that a lane column
\* or two temporal columns enable.
analyzeTrafficControlTowerThrows(d, eng) ==
    /\ Len(d) > 0
    /\ \/ analyzeDataStructureThrows(d)
       \/ LET analysis == analyzeDataStructure(d, eng)
          IN /\ \/ Len(laneFieldsOf(analysis.fields)) > 0
                \/ Len(analysis.analysis.temporalFields) >= 2
             /\ \E i \in 1..Len(d) : d[i].null

AnalyzeNonEmpty(d, eng) ==
    LET analysis == analyzeDataStructure(d, eng)
        fields == analysis.fields
        laneFields == laneFieldsOf(fields)
        shipmentFields == shipmentFieldsOf(fields)
        timeFields == analysis.analysis.temporalFields
    IN [isEmpty |-> FALSE,
        recordCount |-> Len(d),
        laneFields |-> laneFields,
        shipmentFields |-> shipmentFields,
        timeFields |-> timeFields,
        laneMetrics |-> calculateLaneMetrics(d, laneFields),
        congestionAnalysis |-> analyzeCongestion(d, laneFields, timeFields),
        turnaroundTimes |-> calculateTurnaroundTimes(d, timeFields),
        stuckShipments |-> detectStuckShipments(d, shipmentFields, timeFields),
        utilizationScores |-> calculateUtilizationScores(d, laneFields),
        alerts |-> generateTrafficAlerts(d, laneFields, timeFields),
        kpis |-> calculateTrafficKPIs(d, laneFields, timeFields)]

analyzeTrafficControlTowerNoGuard(d, eng) ==
    IF Len(d) = 0
    THEN [isEmpty |-> FALSE, recordCount |-> 0,
          kpis |-> calculateTrafficKPIs(d, <<>>, <<>>)]
    ELSE AnalyzeNonEmpty(d, eng)

analyzeTrafficControlTower(d, eng) ==
    IF Len(d) = 0 THEN [isEmpty |-> TRUE]
    ELSE AnalyzeNonEmpty(d, eng)

-----------------------------------------------------------------------------
(* Inputs of the analyzer                                                  *)
(*                                                                         *)
(* A behaviour builds one dataset and analyzes it. The datasets are drawn  *)
(* from four families (mode): "rows" appends single rows that differ in    *)
(* their two timestamps; "kpi", "congestion" and "lanes" append runs of    *)
(* equal rows, so that per-bucket counts and on-time ratios cross the      *)
(* thresholds of the code.                                                 *)

s_A == <<"A">>
s_B == <<"B">>
s_S1 == <<"S","1">>
s_A_1 == <<"A","_","1">>
s_t0 == <<"t","0">>
s_t1 == <<"t","1">>
s_Dock == <<"D","o","c","k">>

\* 1970-01-01T01:00:00Z plus m minutes
At(m) == DateV(MsPerHour + m * MsPerMinute)

Rec(lane, start, end) ==
    Row(<<<<s_lane, lane>>, <<s_t0, start>>, <<s_t1, end>>>>)

RowsOf(m) ==
    CASE m = "rows" ->
           {Rec(Text(s_A), At(0), At(d)) : d \in {90, 91, 180, 181}}
           \cup {Rec(Text(s_A), At(0), BadDate),
                 Rec(Text(s_A), Null, At(91)),
                 Rec(Text(s_A), At(0), At(0)),
                 Rec(Text(s_A), At(0), Num(5)),
                 Row(<<<<s_shipment_id, Text(s_S1)>>, <<s_lane, Text(s_B)>>,
                       <<s_t0, EmptyStr>>, <<s_t1, At(200)>>>>)}
      [] m = "kpi" ->
           {Rec(Text(s_A), At(0), At(30)), Rec(Text(s_A), At(0), At(181))}
      [] m = "congestion" ->
           {Rec(Text(s_A), At(0), At(30)), Rec(Text(s_A), At(60), At(200)),
            Rec(Text(s_A_1), At(0), At(30)),
            Row(<<<<s_Dock, Text(s_B)>>, <<s_t0, At(0)>>>>)}
      [] m = "lanes" ->
           {Row(<<<<s_lane, Text(s_A)>>>>), Row(<<<<s_lane, Text(s_B)>>>>)}
      \* records that lack a lane column, a temporal column, or both
      [] m = "partial" ->
           {Row(<<<<s_t0, At(0)>>, <<s_t1, At(100)>>>>),
            Row(<<<<s_lane, Text(s_A)>>, <<s_t0, At(0)>>>>),
            Row(<<<<s_lane, Text(s_A)>>>>),
            Row(<<<<s_S1, Text(s_B)>>>>)}
      \* a lane named like an inherited property
      [] m = "inherited" ->
           {Row(<<<<s_lane, Text(s_constructor)>>>>),
            Row(<<<<s_lane, Text(s_A)>>>>),
            Rec(Text(s_constructor), At(0), At(30))}

\* Run lengths: 1 for single rows; otherwise lengths whose sums and ratios
\* fall on both sides of the thresholds of the code (5 and 10 rows per
\* bucket; 70, 80 and 90 percent on time; utilization 0.3, 0.5, 0.7, 0.8 and
\* 0.9), and the 55 against 100 shipments of the documented example.
RunsOf(m) ==
    CASE m = "rows" -> {1}
      [] m = "kpi" -> {1, 3, 4, 5, 7, 9, 10}
      [] m = "congestion" -> {1, 5, 6}
      [] m = "lanes" -> {1, 3, 5, 7, 8, 9, 10, 55, 100}
      [] m = "partial" -> {1, 2}
      [] m = "inherited" -> {1, 2}

BatchesOf(m) == IF m = "rows" THEN MaxRows ELSE MaxBatches

Modes == {"rows", "kpi", "congestion", "lanes", "partial", "inherited"}
Engines == {"v8", "strict"}

Repeat(row, n) == [i \in 1..n |-> row]

NoResult == [isNull |-> TRUE]
NoOutcome == [kind |-> "none"]

-----------------------------------------------------------------------------
(* The analyzer as a state machine *)

ViewIdle ==
    /\ inflight = {}
    /\ started = 0
    /\ loading = FALSE
    /\ viewData = <<>>
    /\ trafficAnalysis = NoResult
    /\ shownLoad = 0
    /\ lastResolved = 0
    /\ lastOutcome = NoOutcome
    /\ mounted = FALSE

Init ==
    /\ mode \in Modes
    \* only the "rows" family holds numbers, which is where engines differ
    /\ engine \in IF mode = "rows" THEN Engines ELSE {"v8"}
    /\ data = <<>>
    /\ batches = 0
    /\ result = NoResult
    /\ ViewIdle

AddRows(row, n) ==
    /\ result = NoResult
    /\ batches < BatchesOf(mode)
    /\ data' = data \o Repeat(row, n)
    /\ batches' = batches + 1
    /\ UNCHANGED <<mode, engine, result>>
    /\ UNCHANGED viewVars

Analyze ==
    /\ result = NoResult
    /\ ~analyzeTrafficControlTowerThrows(data, engine)
    /\ result' = analyzeTrafficControlTower(data, engine)
    /\ UNCHANGED <<mode, engine, data, batches>>
    /\ UNCHANGED viewVars

Next ==
    \/ \E row \in RowsOf(mode), n \in RunsOf(mode) : AddRows(row, n)
    \/ Analyze

Spec == Init /\ [][Next]_vars

-----------------------------------------------------------------------------
(* Properties of the analyzer *)

Analyzed == result # NoResult
AnalyzedNonEmpty == Analyzed /\ Len(data) > 0

Minutes(m) == m * 60000

\* new Date(v) is a valid date: a date string, a number or null
ParsesAsDate(v) == v.k \in {"date", "num", "null"}
DateValue(v) == IF v.k = "date" THEN v.ms ELSE IF v.k = "num" THEN v.n ELSE 0

\* the buckets of the congestion analysis as <<lane, hour, info>>
Buckets ==
    UNION {{<<result.congestionAnalysis[i][1],
              result.congestionAnalysis[i][2][j][1],
              result.congestionAnalysis[i][2][j][2]>> :
               j \in 1..Len(result.congestionAnalysis[i][2])} :
           i \in 1..Len(result.congestionAnalysis)}

\* C3 as stated: a single record with a lane column and two temporal columns
\* 180 minutes apart is flagged CRITICAL with delayMinutes = 135.
OneRecord180 ==
    /\ Analyzed
    /\ Len(data) = 1
    /\ Len(result.laneFields) >= 1
    /\ Len(result.timeFields) = 2
    /\ Get(data[1], result.timeFields[1]).k = "date"
    /\ Get(data[1], result.timeFields[2]).k = "date"
    /\ Get(data[1], result.timeFields[2]).ms
         - Get(data[1], result.timeFields[1]).ms = Minutes(180)

C3_Original ==
    OneRecord180 =>
        /\ Len(result.stuckShipments) = 1
        /\ result.stuckShipments[1].severity = "CRITICAL"
        /\ result.stuckShipments[1].delayMinutes = Minutes(135)

\* C3 amended: such a record is flagged with severity WARNING (180 is not
\* strictly greater than 180) and delayMinutes = 135.
C3_Flagged180IsWarning ==
    OneRecord180 =>
        /\ Len(result.stuckShipments) = 1
        /\ result.stuckShipments[1].status = "DELAYED"
        /\ result.stuckShipments[1].severity = "WARNING"
        /\ result.stuckShipments[1].delayMinutes = Minutes(135)

C3_Witness == OneRecord180 /\ Len(result.stuckShipments) = 1

\* C4: stuckShipments holds, in order, exactly the turnaround entries that are
\* strictly above 90 minutes, each DELAYED with delayMinutes = turnaround - 45
\* and severity CRITICAL when strictly above 180 minutes, WARNING otherwise.
C4_StuckExactlyAbove90 ==
    AnalyzedNonEmpty =>
        IF result.turnaroundTimes.isNull THEN result.stuckShipments = <<>>
        ELSE LET det == result.turnaroundTimes.details
                 over == {i \in 1..Len(det) : det[i].turnaroundMinutes > Minutes(90)}
                 stuck == result.stuckShipments
             IN /\ Len(stuck) = Cardinality(over)
                /\ \A i \in over :
                     LET e == stuck[Cardinality({j \in over : j <= i})]
                         t == det[i].turnaroundMinutes
                     IN /\ e.shipmentId = det[i].shipmentId
                        /\ e.turnaroundMinutes = t
                        /\ e.startTime = det[i].startTime
                        /\ e.status = "DELAYED"
                        /\ e.delayMinutes = t - Minutes(45)
                        /\ e.severity = IF t > Minutes(180) THEN "CRITICAL"
                                        ELSE "WARNING"

C4_Witness ==
    /\ AnalyzedNonEmpty
    /\ ~result.turnaroundTimes.isNull
    /\ \E i \in 1..Len(result.turnaroundTimes.details) :
          result.turnaroundTimes.details[i].turnaroundMinutes = Minutes(90)
    /\ \E i \in 1..Len(result.stuckShipments) :
          result.stuckShipments[i].severity = "CRITICAL"
    /\ \E i \in 1..Len(result.stuckShipments) :
          result.stuckShipments[i].severity = "WARNING"

\* C5: every congestion bucket is Heavy when its count is above 10, Moderate
\* when above 5 and at most 10, Normal when at most 5.
C5_LevelFromCount ==
    AnalyzedNonEmpty =>
        \A b \in Buckets :
            /\ b[3].count >= 1
            /\ b[3].level = (IF b[3].count > 10 THEN "Heavy"
                             ELSE IF b[3].count > 5 THEN "Moderate"
                             ELSE "Normal")
            /\ (b[3].count = 5 => b[3].level = "Normal")
            /\ (b[3].count \in {6, 10} => b[3].level = "Moderate")
            /\ (b[3].count = 11 => b[3].level = "Heavy")

C5_Witness ==
    /\ AnalyzedNonEmpty
    /\ \E b \in Buckets : b[3].count = 6 /\ b[3].level = "Moderate"
    /\ \E b \in Buckets : b[3].count = 5 /\ b[3].level = "Normal"

C7_AlertsExact ==
    AnalyzedNonEmpty =>
        LET stuck == result.stuckShipments
            alerts == result.alerts
            heavy == {b \in Buckets : b[3].level = "Heavy"}
            rest == (Len(stuck) + 1)..Len(alerts)
        IN /\ Len(alerts) = Len(stuck) + Cardinality(heavy)
           /\ \A i \in 1..Len(stuck) :
                /\ alerts[i].type = "DELAY"
                /\ alerts[i].severity = stuck[i].severity
                /\ alerts[i].data = stuck[i]
           /\ \A i \in rest : alerts[i].type = "CONGESTION"
           /\ {<<alerts[i].data.lane, alerts[i].data.hour, alerts[i].data.count>> :
                  i \in rest}
                = {<<b[1], b[2], b[3].count>> : b \in heavy}

C7_Witness ==
    /\ AnalyzedNonEmpty
    /\ \E i \in 1..Len(result.alerts) : result.alerts[i].type = "DELAY"
    /\ \E i \in 1..Len(result.alerts) : result.alerts[i].type = "CONGESTION"

\* C8 as stated: totalShipments is the record count, onTimePercentage is
\* exactly (total - stuck) / total * 100 within 0..100, and the label is
\* Excellent above 90, Good above 80, Fair above 70, Poor otherwise.
LabelOf(tenths) ==
    IF tenths > 900 THEN "Excellent"
    ELSE IF tenths > 800 THEN "Good"
    ELSE IF tenths > 700 THEN "Fair"
    ELSE "Poor"

C8_Original ==
    AnalyzedNonEmpty =>
        LET total == Len(data)
            stuck == Len(result.stuckShipments)
        IN /\ result.kpis.totalShipments = total
           /\ result.kpis.onTimePercentage * total = 1000 * (total - stuck)
           /\ result.kpis.onTimePercentage \in 0..1000
           /\ result.kpis.operationalEfficiency
                = LabelOf(result.kpis.onTimePercentage)

\* C8 amended: onTimePercentage is (total - stuck) / total * 100 rounded to
\* one decimal place, within 0..100, and the label is taken from that rounded
\* value: Excellent above 90, Good above 80, Fair above 70, Poor otherwise.
C8_OnTimeRoundedToTenth ==
    AnalyzedNonEmpty =>
        LET total == Len(data)
            stuck == Len(result.stuckShipments)
            tenths == result.kpis.onTimePercentage
            err == tenths * total - 1000 * (total - stuck)
        IN /\ result.kpis.totalShipments = total
           /\ result.kpis.delayedShipments = stuck
           /\ 2 * err <= total /\ -(2 * err) <= total
           /\ tenths \in 0..1000
           /\ result.kpis.operationalEfficiency = LabelOf(tenths)

C8_Witness ==
    /\ AnalyzedNonEmpty
    /\ Len(data) = 3
    /\ Len(result.stuckShipments) = 1
    /\ result.kpis.onTimePercentage = 667
    /\ result.kpis.operationalEfficiency = "Poor"

C8_WitnessBoundary ==
    /\ AnalyzedNonEmpty
    /\ result.kpis.onTimePercentage = 900
    /\ result.kpis.operationalEfficiency = "Good"

C10_UtilizationGrades ==
    (AnalyzedNonEmpty /\ Len(result.laneFields) > 0) =>
        LET us == result.utilizationScores
            lane == result.laneFields[1]
            rowsOf(key) == {i \in 1..Len(data) :
                               /\ Get(data[i], lane).k = "text"
                               /\ Get(data[i], lane).s = key}
            busiest == SetMax({Cardinality(rowsOf(us[i][1])) : i \in 1..Len(us)})
        IN \A i \in 1..Len(us) :
              LET c == Cardinality(rowsOf(us[i][1]))
                  u == us[i][2]
              IN /\ u.utilization.den > 0
                 /\ u.shipmentCount = c
                 /\ c >= 1
                 \* utilization (in percent) = c / busiest * 100
                 /\ u.utilization.num * busiest = 100 * c * u.utilization.den
                 /\ u.grade = (IF 10 * c >= 9 * busiest THEN "A"
                               ELSE IF 10 * c >= 7 * busiest THEN "B"
                               ELSE IF 10 * c >= 5 * busiest THEN "C"
                               ELSE IF 10 * c >= 3 * busiest THEN "D"
                               ELSE "F")
                 /\ u.efficiency = (IF 10 * c >= 8 * busiest THEN "High"
                                    ELSE IF 10 * c >= 5 * busiest THEN "Medium"
                                    ELSE "Low")
                 /\ (c = 55 /\ busiest = 100)
                      => (u.grade = "C" /\ u.efficiency = "Medium")

\* C11: for a non-empty dataset of records, analyze returns; without a lane
\* column laneMetrics, congestionAnalysis and utilizationScores are empty;
\* without a temporal column congestionAnalysis is empty; with fewer than two
\* temporal columns turnaroundTimes is null and stuckShipments is empty; and
\* the sub-results whose columns are present, and the KPIs, are computed.
C11_AbsentColumnsGivePartialResults ==
    /\ Len(data) > 0 => ~analyzeTrafficControlTowerThrows(data, engine)
    /\ AnalyzedNonEmpty =>
          LET hasLane == \E i \in 1..Len(Keys(data[1])) : IsLaneField(Keys(data[1])[i])
              times == result.timeFields
          IN /\ hasLane <=> result.laneFields # <<>>
             /\ ~hasLane => /\ result.laneMetrics = <<>>
                            /\ result.congestionAnalysis = <<>>
                            /\ result.utilizationScores = <<>>
             /\ times = <<>> => result.congestionAnalysis = <<>>
             /\ Len(times) < 2 => /\ result.turnaroundTimes = NullValue
                                  /\ result.stuckShipments = <<>>
                                  /\ result.kpis.avgTurnaroundMinutes = NullValue
                                  /\ result.kpis.delayedShipments = 0
                                  /\ result.kpis.onTimePercentage = 1000
             /\ hasLane /\ Truthy(Get(data[1], result.laneFields[1]))
                   => /\ result.utilizationScores # <<>>
                      /\ result.kpis.activeLanes > 0
             \* a lane named like an inherited property gets no entry
             /\ hasLane /\ Truthy(Get(data[1], result.laneFields[1]))
                   /\ ToKey(Get(data[1], result.laneFields[1])) \notin InheritedKeys
                   => result.laneMetrics # <<>>
             /\ hasLane /\ times # <<>>
                   /\ Truthy(Get(data[1], result.laneFields[1]))
                   /\ ToKey(Get(data[1], result.laneFields[1])) \notin InheritedKeys
                   /\ Truthy(Get(data[1], times[1]))
                   => result.congestionAnalysis # <<>>
             /\ Len(times) >= 2 => ~result.turnaroundTimes.isNull
             /\ result.kpis.totalShipments = Len(data)
             /\ result.recordCount = Len(data)

\* no lane column but two temporal columns: the lane results are empty, the
\* turnaround and the stuck shipment are computed
C11_Witness ==
    /\ AnalyzedNonEmpty
    /\ result.laneFields = <<>>
    /\ Len(result.timeFields) = 2
    /\ result.laneMetrics = <<>>
    /\ Len(result.stuckShipments) > 0
    /\ result.kpis.delayedShipments > 0

\* the records whose start and end values are both present (neither null,
\* undefined nor the empty string)
WithBothTimes(d, timeFields) ==
    SelectSeq(d, LAMBDA row : /\ ~Missing(Get(row, timeFields[1]))
                              /\ ~Missing(Get(row, timeFields[2])))

DelayAlerts(alerts) == SelectSeq(alerts, LAMBDA a : a.type = "DELAY")

\* C24 as stated: a record whose start or end value is missing contributes no
\* entry to the turnaround details, is not flagged as stuck and raises no
\* DELAY alert: the three are those of the records with both values.
C24_Original ==
    AnalyzedNonEmpty /\ Len(result.timeFields) >= 2 =>
       LET present == WithBothTimes(data, result.timeFields)
       IN /\ result.turnaroundTimes.details =
                TurnaroundDetailsFrom(present, result.timeFields[1],
                                      result.timeFields[2])
          /\ result.stuckShipments =
                detectStuckShipments(present, result.shipmentFields,
                                     result.timeFields)
          /\ DelayAlerts(result.alerts) =
                DelayAlerts(generateTrafficAlerts(present, result.laneFields,
                                                  result.timeFields))

\* C25 as stated: kpis.avgTurnaroundMinutes is null exactly when there is no
\* turnaround result, and otherwise is the average turnaround rounded to the
\* nearest integer, an average of 0 included.
C25_Original ==
    AnalyzedNonEmpty =>
       /\ result.kpis.avgTurnaroundMinutes = NullValue
             <=> result.turnaroundTimes.isNull
       /\ ~result.turnaroundTimes.isNull
             /\ result.turnaroundTimes.avgTurnaround.den # 0 =>
                result.kpis.avgTurnaroundMinutes =
                   Fin(RoundDiv(result.turnaroundTimes.avgTurnaround.num,
                                result.turnaroundTimes.avgTurnaround.den
                                   * MsPerMinute))

\* the records that have a lane and a timestamp, by index
Timed == {i \in 1..Len(data) :
             /\ Truthy(Get(data[i], result.laneFields[1]))
             /\ Truthy(Get(data[i], result.timeFields[1]))}
LaneAt(i) == ToKey(Get(data[i], result.laneFields[1]))
HourAt(i) == HourKey(Get(data[i], result.timeFields[1]))

\* C26 as stated: with a lane column of strings and a temporal column, the
\* buckets of the congestion analysis are exactly the (lane, hour) pairs the
\* records have, each with the number of records of that lane in that hour,
\* lane names with an underscore included.
C26_Original ==
    AnalyzedNonEmpty /\ result.laneFields # <<>> /\ result.timeFields # <<>>
       /\ (\A i \in 1..Len(data) :
              Get(data[i], result.laneFields[1]).k \in {"text", "undef"}) =>
       {<<b[1], b[2], b[3].count>> : b \in Buckets} =
          {<<LaneAt(i), HourAt(i),
             Cardinality({j \in Timed : /\ LaneAt(j) = LaneAt(i)
                                        /\ HourAt(j) = HourAt(i)})>> :
             i \in Timed}

LanesOf(entries) == {entries[i][1] : i \in 1..Len(entries)}

\* C29 as stated: with a lane column of strings, laneMetrics and
\* utilizationScores have the same lanes with the same shipment counts,
\* kpis.activeLanes is the number of those lanes, and every lane with the
\* largest count has utilization 100, grade A and efficiency High.
C29_Original ==
    AnalyzedNonEmpty /\ result.laneFields # <<>>
       /\ (\A i \in 1..Len(data) :
              Get(data[i], result.laneFields[1]).k \in {"text", "undef"}) =>
       LET lm == result.laneMetrics
           us == result.utilizationScores
           busiest == SetMax({lm[i][2].totalShipments : i \in 1..Len(lm)})
       IN /\ LanesOf(lm) = LanesOf(us)
          /\ \A i \in 1..Len(lm), j \in 1..Len(us) :
                lm[i][1] = us[j][1] =>
                   lm[i][2].totalShipments = us[j][2].shipmentCount
          /\ result.kpis.activeLanes = Cardinality(LanesOf(lm))
          /\ \A j \in 1..Len(us) :
                us[j][2].shipmentCount = busiest =>
                   /\ us[j][2].utilization.den > 0
                   /\ us[j][2].utilization.num = 100 * us[j][2].utilization.den
                   /\ us[j][2].grade = "A"
                   /\ us[j][2].efficiency = "High"

-----------------------------------------------------------------------------
(* The fetch service and the mock generators *)

s_bay_code == <<"b","a","y","_","c","o","d","e">>
s_truck_id == <<"t","r","u","c","k","_","i","d">>
s_gross_quantity == <<"g","r","o","s","s","_","q","u","a","n","t","i","t","y">>
s_flow_rate == <<"f","l","o","w","_","r","a","t","e">>
s_shipment_type == <<"s","h","i","p","m","e","n","t","_","t","y","p","e">>
s_exit_time == <<"e","x","i","t","_","t","i","m","e">>
s_scheduled_date == <<"s","c","h","e","d","u","l","e","d","_","d","a","t","e">>
s_load_time_minutes == <<"l","o","a","d","_","t","i","m","e","_","m","i","n","u","t","e","s">>
s_status == <<"s","t","a","t","u","s">>
s_start_time == <<"s","t","a","r","t","_","t","i","m","e">>
s_end_time == <<"e","n","d","_","t","i","m","e">>
s_load_type == <<"l","o","a","d","_","t","y","p","e">>
s_weight_tons == <<"w","e","i","g","h","t","_","t","o","n","s">>
s_sql_query == <<"s","q","l"," ","q","u","e","r","y">>
s_Container == <<"C","o","n","t","a","i","n","e","r">>
s_Bulk == <<"B","u","l","k">>
s_Completed == <<"C","o","m","p","l","e","t","e","d">>
s_Scheduled == <<"S","c","h","e","d","u","l","e","d">>
s_Loading == <<"L","o","a","d","i","n","g">>

MockCount == 50
TerminalMockCount == 100
Seeds == {1, 2}

\* Date.now() of the model: 1970-01-01T10:00:00Z
NowMs == 10 * MsPerHour

\* row i of generateMockData().data under the draw seed of its random values
MockRow(i, seed) ==
        Row(<<<<s_shipment_id, Text(<<"S">> \o NatToString(1000 + i - 1))>>,
              <<s_bay_code, Text(<<<<"A">>, <<"B">>, <<"C">>>>[((i + seed) % 3) + 1]
                                 \o NatToString(((i * seed) % 2) + 1))>>,
              <<s_truck_id, Text(<<"T", "0", "0">> \o NatToString(((i + seed) % 5) + 1))>>,
              <<s_gross_quantity, Num(10 + ((7 * i + 13 * seed) % 100))>>,
              <<s_flow_rate, Num(10 + ((3 * i + seed) % 50))>>,
              <<s_shipment_type, Text(IF (i + seed) % 2 = 0 THEN s_Container ELSE s_Bulk)>>,
              <<s_exit_time, DateV(NowMs - ((i * seed) % 7) * MsPerHour)>>,
              <<s_scheduled_date, DateV(NowMs + ((i + seed) % 5) * MsPerHour)>>,
              <<s_load_time_minutes, Num(15 + ((11 * i + seed) % 60))>>,
              <<s_status, Text(IF i % 2 = 0 THEN s_Completed ELSE s_Scheduled)>>>>)

\* generateMockData().data: 50 rows, tabulated once per draw
MockDraws ==
    EagerFn([seed \in Seeds |-> Eager([i \in 1..MockCount |-> MockRow(i, seed)])])

generateMockData(seed) == MockDraws[seed]

\* row i of generateTerminalMockData() under the draw seed: a lane of
\* LANE01..LANE05, an end 15 to 135 minutes after the start
TerminalMockRow(i, seed) ==
        LET startTime == NowMs - ((5 * i + seed) % 10) * MsPerHour
            endTime == startTime + (15 + ((17 * i + 31 * seed) % 120)) * MsPerMinute
        IN Row(<<<<s_shipment_id, Digits(190817000 + i - 1)>>,
                 <<s_ticket_id, Text(<<"T", "K", "T">> \o NatToString(1000 + i - 1))>>,
                 <<s_lane, Text(<<"L", "A", "N", "E", "0">>
                                \o NatToString(((i * seed) % 5) + 1))>>,
                 <<s_truck_id, Text(<<"T">> \o NatToString(100 + ((37 * i + seed) % 500)))>>,
                 <<s_start_time, DateV(startTime)>>,
                 <<s_end_time, DateV(endTime)>>,
                 <<s_load_type, Text(IF (i + seed) % 2 = 0 THEN s_Container ELSE s_Bulk)>>,
                 <<s_weight_tons, Num(10 + ((9 * i + seed) % 40))>>,
                 <<s_status, Text(IF i % 2 = 0 THEN s_Completed ELSE s_Loading)>>>>)

\* generateTerminalMockData(): 100 rows, tabulated once per draw
TerminalMockDraws ==
    EagerFn([seed \in Seeds |->
        Eager([i \in 1..TerminalMockCount |-> TerminalMockRow(i, seed)])])

generateTerminalMockData(seed) == TerminalMockDraws[seed]

\* What the backend answered: {data: rows}, a bare array, {results: rows}, a
\* single object (obj its only row), or something that is no object
processLangChainResponse(responseData) ==
    CASE responseData.shape = "data" -> responseData.rows
      [] responseData.shape = "array" -> responseData.rows
      [] responseData.shape = "results" -> responseData.rows
      [] responseData.shape = "object" -> <<responseData.obj>>
      [] OTHER -> <<>>

\* The request resolves with a response, or axios rejects (network error,
\* error status, or the 60 s timeout) and the catch returns success: false
fetchDataFromLangChain(outcome) ==
    IF outcome.kind = "response"
    THEN [data |-> processLangChainResponse(outcome.responseData), success |-> TRUE]
    ELSE [data |-> <<>>, success |-> FALSE]

-----------------------------------------------------------------------------
(* The operations view as a state machine *)

hasTerminalDataUnchecked(d) == TRUE

hasTerminalData(d) ==
    /\ Len(d) > 0
    /\ \E i \in 1..Len(Keys(d[1])) :
          LET field == toLowerCase(Keys(d[1])[i])
          IN includes(field, s_lane) \/ includes(field, s_bay)
                \/ includes(field, s_dock)

\* The dataset loadTrafficData ends up displaying for a fetch outcome; seed
\* is the draw of the mock generator it calls, if it calls one
DataToUse(outcome, seed, eng) ==
    LET fetched == fetchDataFromLangChain(outcome)
        dataToUse == Eager(IF fetched.success THEN fetched.data
                           ELSE generateMockData(seed))
    IN IF ~hasTerminalData(dataToUse) THEN generateTerminalMockData(seed)
       \* analyzeTrafficControlTower throws: the catch block displays mock data
       ELSE IF analyzeTrafficControlTowerThrows(dataToUse, eng)
            THEN generateTerminalMockData(seed)
       ELSE dataToUse

\* What the backend may answer
TerminalRows == <<Rec(Text(s_A), At(0), At(100)), Rec(Text(s_B), At(0), At(30))>>
GateRows == <<Row(<<<<s_gate, Text(s_A)>>, <<s_t0, At(0)>>, <<s_t1, At(100)>>>>)>>
QueryOnly == Row(<<<<s_sql_query, Text(s_A)>>>>)

Responses ==
    {[shape |-> "data", rows |-> TerminalRows],
     [shape |-> "data", rows |-> GateRows],
     [shape |-> "data", rows |-> <<>>],
     [shape |-> "data", rows |-> <<NullRow>> \o TerminalRows],
     [shape |-> "data", rows |-> TerminalRows \o <<NullRow>>],
     [shape |-> "array", rows |-> TerminalRows],
     [shape |-> "results", rows |-> TerminalRows],
     [shape |-> "object", obj |-> QueryOnly],
     [shape |-> "object", obj |-> TerminalRows[1]],
     [shape |-> "scalar"]}

Outcomes ==
    {[kind |-> "response", responseData |-> r] : r \in Responses}
    \cup {[kind |-> "error"], [kind |-> "timeout"]}

\* The analysis of every dataset a load can display, tabulated once
DisplayedAnalysis ==
    LET shown == {<<DataToUse(x[1], x[2], x[3]), x[3]>> :
                     x \in Outcomes \X Seeds \X Engines}
    IN EagerFn([y \in shown |-> analyzeTrafficControlTower(y[1], y[2])])

\* What a load hands to setData and setTrafficAnalysis, for every fetch
\* outcome, mock draw and engine
Displayed ==
    EagerFn([x \in Outcomes \X Seeds \X Engines |->
        LET dataToUse == DataToUse(x[1], x[2], x[3])
        IN [data |-> dataToUse,
            analysis |-> DisplayedAnalysis[<<dataToUse, x[3]>>]]])

InflightAfterStartCancelling(id) == {id}

\* loadTrafficData up to its await: nothing cancels the loads in flight
InflightAfterStart(id) == inflight \cup {id}

StartLoad(id) ==
    /\ inflight' = InflightAfterStart(id)
    /\ started' = id
    /\ loading' = TRUE
    /\ UNCHANGED <<viewData, trafficAnalysis, shownLoad, lastResolved, lastOutcome>>

\* useEffect on mount: the first load, and the 30 s timer is armed
Mount ==
    /\ ~mounted
    /\ started = 0
    /\ mounted' = TRUE
    /\ StartLoad(1)
    /\ UNCHANGED analysisVars

\* the timer fires: another load, whatever is still in flight
TimerTick ==
    /\ mounted
    /\ started < MaxLoads
    /\ StartLoad(started + 1)
    /\ UNCHANGED <<mounted>>
    /\ UNCHANGED analysisVars

\* loadTrafficData from its await to the end, for load id
Resolve(id, outcome, seed) ==
    /\ id \in inflight
    /\ inflight' = inflight \ {id}
    /\ IF mounted
       THEN LET shown == Displayed[<<outcome, seed, engine>>]
            IN /\ viewData' = shown.data
               /\ trafficAnalysis' = shown.analysis
               /\ shownLoad' = id
               /\ loading' = FALSE
               /\ lastResolved' = id
               /\ lastOutcome' = outcome
       \* state setters of an unmounted component do nothing
       ELSE UNCHANGED <<viewData, trafficAnalysis, shownLoad, loading,
                        lastResolved, lastOutcome>>
    /\ UNCHANGED <<started, mounted>>
    /\ UNCHANGED analysisVars

\* the effect's cleanup: the timer is cleared, the loads in flight are not
Unmount ==
    /\ mounted
    /\ mounted' = FALSE
    /\ UNCHANGED <<inflight, started, loading, viewData, trafficAnalysis,
                   shownLoad, lastResolved, lastOutcome>>
    /\ UNCHANGED analysisVars

InitView ==
    /\ mode = "view"
    /\ engine \in Engines
    /\ data = <<>>
    /\ batches = 0
    /\ result = NoResult
    /\ ViewIdle

NextView ==
    \/ Mount
    \/ TimerTick
    \/ \E id \in 1..MaxLoads, outcome \in Outcomes, seed \in Seeds :
          Resolve(id, outcome, seed)
    \/ Unmount

SpecView == InitView /\ [][NextView]_vars

-----------------------------------------------------------------------------
(* Properties of the operations view *)

\* the display state is what the load that resolved last produced
ShowsLastResolved ==
    /\ shownLoad = lastResolved
    /\ \E seed \in Seeds :
          /\ viewData = Displayed[<<lastOutcome, seed, engine>>].data
          /\ trafficAnalysis = Displayed[<<lastOutcome, seed, engine>>].analysis

\* C1: starting a load cancels none of the loads in flight, and once a
\* response has resolved the mounted view displays the dataset and the
\* analysis of the load that resolved last, whichever load was started last.
C1_LastResponseWins ==
    /\ [](mounted /\ lastResolved # 0 => ShowsLastResolved)
    /\ [][started' # started => inflight \subseteq inflight']_vars

\* load 2 has resolved, then the older load 1, whose result is on display
C1_Witness ==
    /\ mounted
    /\ started >= 2
    /\ 2 \notin inflight
    /\ lastResolved = 1
    /\ shownLoad = 1
    /\ lastOutcome.kind = "response"
    /\ viewData = TerminalRows

\* C2: after a load has completed in the mounted view, whatever its fetch
\* produced, trafficAnalysis is set, is not the empty sentinel, and was computed
\* from the non-empty dataset on display.
C2_NeverBlankAfterLoad ==
    mounted /\ lastResolved # 0
       => /\ trafficAnalysis # NoResult
          /\ ~trafficAnalysis.isEmpty
          /\ Len(viewData) > 0
          /\ trafficAnalysis.recordCount = Len(viewData)

\* a fetch that timed out: the 50 mock rows are on display
C2_Witness ==
    /\ mounted
    /\ lastResolved # 0
    /\ lastOutcome.kind = "timeout"
    /\ Len(viewData) = MockCount
    /\ ~trafficAnalysis.isEmpty

\* C27 as stated: in the mounted view the loading flag is set whenever a load
\* is in flight, so that with two overlapping loads the completion of one
\* does not clear it while the other is pending.
C27_Original ==
    mounted /\ inflight # {} => loading

-----------------------------------------------------------------------------
(* Encoding advisor (suggestBestFields, suggestChartType) and chart builder *)
(* (src/src/utils/chartGeneration.js). A call either returns a value or    *)
(* throws; a field that is undefined is the empty name, which is falsy as  *)
(* undefined is.                                                           *)

Threw == [kind |-> "threw"]
Returned(v) == [kind |-> "returned", value |-> v]

NoField == <<>>

\* list[i - 1] of the code: the element, undefined past the end
ElemOr(list, i) == IF i <= Len(list) THEN list[i] ELSE NoField

\* a || b on field names
OrElse(a, b) == IF a # NoField THEN a ELSE b

analyzeDataStructureOutcome(d, eng) ==
    IF analyzeDataStructureThrows(d) THEN Threw
    ELSE Returned(analyzeDataStructure(d, eng))

\* the destructured lists are undefined in the classification of an empty
\* dataset, and reading .length of undefined throws
GroupedListsMissing(analysis) == "temporalFields" \notin DOMAIN analysis.analysis

r_timeSeries == "Time series: temporal data over time"
r_categorical == "Categorical analysis: categories vs quantities"
r_correlation == "Correlation analysis: two quantitative variables"
r_default == "Default: using available fields"

\* the categorical pairing with the ordinal field preferred to the nominal one
suggestBestFieldsOrdinalFirst(analysis) ==
    LET quantitativeFields == analysis.analysis.quantitativeFields
        nominalFields == analysis.analysis.nominalFields
        temporalFields == analysis.analysis.temporalFields
        ordinalFields == analysis.analysis.ordinalFields
        allFields == analysis.fields
    IN IF Len(temporalFields) > 0 /\ Len(quantitativeFields) > 0
       THEN [xField |-> temporalFields[1], yField |-> quantitativeFields[1],
             reasoning |-> r_timeSeries]
       ELSE IF (Len(nominalFields) > 0 \/ Len(ordinalFields) > 0)
               /\ Len(quantitativeFields) > 0
       THEN [xField |-> OrElse(ElemOr(ordinalFields, 1), ElemOr(nominalFields, 1)),
             yField |-> quantitativeFields[1],
             reasoning |-> r_categorical]
       ELSE IF Len(quantitativeFields) >= 2
       THEN [xField |-> quantitativeFields[1], yField |-> quantitativeFields[2],
             reasoning |-> r_correlation]
       ELSE [xField |-> ElemOr(allFields, 1),
             yField |-> OrElse(ElemOr(allFields, 2), ElemOr(allFields, 1)),
             reasoning |-> r_default]

suggestBestFields(analysis) ==
    LET quantitativeFields == analysis.analysis.quantitativeFields
        nominalFields == analysis.analysis.nominalFields
        temporalFields == analysis.analysis.temporalFields
        ordinalFields == analysis.analysis.ordinalFields
        allFields == analysis.fields
    IN IF Len(temporalFields) > 0 /\ Len(quantitativeFields) > 0
       THEN [xField |-> temporalFields[1], yField |-> quantitativeFields[1],
             reasoning |-> r_timeSeries]
       ELSE IF (Len(nominalFields) > 0 \/ Len(ordinalFields) > 0)
               /\ Len(quantitativeFields) > 0
       THEN [xField |-> OrElse(ElemOr(nominalFields, 1), ElemOr(ordinalFields, 1)),
             yField |-> quantitativeFields[1],
             reasoning |-> r_categorical]
       ELSE IF Len(quantitativeFields) >= 2
       THEN [xField |-> quantitativeFields[1], yField |-> quantitativeFields[2],
             reasoning |-> r_correlation]
       ELSE [xField |-> ElemOr(allFields, 1),
             yField |-> OrElse(ElemOr(allFields, 2), ElemOr(allFields, 1)),
             reasoning |-> r_default]

suggestBestFieldsOutcome(analysis) ==
    IF GroupedListsMissing(analysis) THEN Threw
    ELSE Returned(suggestBestFields(analysis))

c_line == "Line chart for time series data"
c_bar == "Bar chart for categorical analysis"
c_scatter == "Scatter plot for correlation analysis"
c_pie == "Pie chart for categorical distribution"
c_default == "Default bar chart"

\* the ladder with the scatter rule tried before the categorical rule
suggestChartTypeScatterFirst(analysis) ==
    LET quantitativeFields == analysis.analysis.quantitativeFields
        nominalFields == analysis.analysis.nominalFields
        temporalFields == analysis.analysis.temporalFields
        ordinalFields == analysis.analysis.ordinalFields
    IN IF Len(temporalFields) > 0 /\ Len(quantitativeFields) > 0
       THEN [chartType |-> "line", reasoning |-> c_line]
       ELSE IF Len(quantitativeFields) >= 2
       THEN [chartType |-> "scatter", reasoning |-> c_scatter]
       ELSE IF (Len(nominalFields) > 0 \/ Len(ordinalFields) > 0)
               /\ Len(quantitativeFields) > 0
       THEN [chartType |-> "bar", reasoning |-> c_bar]
       ELSE IF Len(nominalFields) > 0 \/ Len(ordinalFields) > 0
       THEN [chartType |-> "pie", reasoning |-> c_pie]
       ELSE [chartType |-> "bar", reasoning |-> c_default]

suggestChartType(analysis) ==
    LET quantitativeFields == analysis.analysis.quantitativeFields
        nominalFields == analysis.analysis.nominalFields
        temporalFields == analysis.analysis.temporalFields
        ordinalFields == analysis.analysis.ordinalFields
    IN IF Len(temporalFields) > 0 /\ Len(quantitativeFields) > 0
       THEN [chartType |-> "line", reasoning |-> c_line]
       ELSE IF (Len(nominalFields) > 0 \/ Len(ordinalFields) > 0)
               /\ Len(quantitativeFields) > 0
       THEN [chartType |-> "bar", reasoning |-> c_bar]
       ELSE IF Len(quantitativeFields) >= 2
       THEN [chartType |-> "scatter", reasoning |-> c_scatter]
       ELSE IF Len(nominalFields) > 0 \/ Len(ordinalFields) > 0
       THEN [chartType |-> "pie", reasoning |-> c_pie]
       ELSE [chartType |-> "bar", reasoning |-> c_default]

suggestChartTypeOutcome(analysis) ==
    IF GroupedListsMissing(analysis) THEN Threw
    ELSE Returned(suggestChartType(analysis))

\* analysis.fieldTypes[field] || fallback
FieldTypeOr(analysis, field, fallback) ==
    IF field \in DOMAIN analysis.fieldTypes THEN analysis.fieldTypes[field]
    ELSE fallback

c_blue == "#3b82f6"

\* The specs below hold the mark type and the x, y, theta and color channels;
\* the title, the tooltips and the fixed styling are left out.
createBarChart(analysis, xField, yField) ==
    LET xType == FieldTypeOr(analysis, xField, "nominal")
        yType == FieldTypeOr(analysis, yField, "quantitative")
    IN [mark |-> "bar", hasData |-> TRUE,
        encoding |->
          [x |-> [field |-> xField, type |-> xType],
           y |-> [field |-> yField, type |-> yType,
                  aggregate |-> IF yType = "quantitative" THEN "sum" ELSE "count"],
           color |-> [field |-> xField, type |-> xType,
                      legend |-> ~(Len(analysis.analysis.nominalFields)
                                     > MaxLegendFields)]]]

createLineChart(analysis, xField, yField) ==
    [mark |-> "line", hasData |-> TRUE,
     encoding |->
       [x |-> [field |-> xField, type |-> FieldTypeOr(analysis, xField, "temporal")],
        y |-> [field |-> yField,
               type |-> FieldTypeOr(analysis, yField, "quantitative")],
        color |-> [value |-> c_blue]]]

createScatterChart(analysis, xField, yField) ==
    LET colorField == OrElse(ElemOr(analysis.analysis.nominalFields, 1),
                             ElemOr(analysis.analysis.ordinalFields, 1))
    IN [mark |-> "circle", hasData |-> TRUE,
        encoding |->
          [x |-> [field |-> xField,
                  type |-> FieldTypeOr(analysis, xField, "quantitative")],
           y |-> [field |-> yField,
                  type |-> FieldTypeOr(analysis, yField, "quantitative")],
           color |-> IF colorField # NoField
                     THEN [field |-> colorField,
                           type |-> FieldTypeOr(analysis, colorField, "nominal")]
                     ELSE [value |-> c_blue]]]

createPieChart(analysis, field) ==
    [mark |-> "arc", hasData |-> TRUE,
     encoding |->
       [theta |-> [aggregate |-> "count", type |-> "quantitative"],
        color |-> [field |-> field,
                   type |-> FieldTypeOr(analysis, field, "nominal")]]]

createEmptyChart == [mark |-> "text", hasData |-> FALSE]

generateDynamicChart(d, eng) ==
    IF Len(d) = 0 THEN createEmptyChart
    ELSE LET analysis == analyzeDataStructure(d, eng)
             best == suggestBestFields(analysis)
             chartType == suggestChartType(analysis).chartType
         IN CASE chartType = "line" ->
                   createLineChart(analysis, best.xField, best.yField)
              [] chartType = "scatter" ->
                   createScatterChart(analysis, best.xField, best.yField)
              [] chartType = "pie" -> createPieChart(analysis, best.xField)
              [] OTHER -> createBarChart(analysis, best.xField, best.yField)

\* the classification of the first line throws on a null record in the sample
generateDynamicChartOutcome(d, eng) ==
    IF analyzeDataStructureThrows(d) THEN Threw
    ELSE Returned(generateDynamicChart(d, eng))

-----------------------------------------------------------------------------
(* The validator of the exploration view (src/src/utils/fieldMapping.js).  *)
(* A suggestion list is held by its length.                                *)

v_noData == "No data available"
v_large == "Large dataset detected"
v_noFields == "No fields detected in data"
v_single == "Limited analysis possible with single field"
v_suitable == "Data is suitable for GraphicWalker"

validateDataForGraphicWalker(d, eng) ==
    IF Len(d) = 0
    THEN [isValid |-> FALSE, reason |-> v_noData, suggestions |-> 1]
    ELSE IF Len(d) > LargeDataset
    THEN [isValid |-> TRUE, reason |-> v_large, suggestions |-> 2]
    ELSE LET analysis == analyzeDataStructure(d, eng)
         IN IF Len(analysis.fields) = 0
            THEN [isValid |-> FALSE, reason |-> v_noFields, suggestions |-> 1]
            ELSE IF Len(analysis.fields) = 1
            THEN [isValid |-> TRUE, reason |-> v_single, suggestions |-> 1]
            ELSE [isValid |-> TRUE, reason |-> v_suitable, suggestions |-> 0]

\* the classification is reached, and may throw, only for a non-empty
\* dataset of at most 10,000 records
validateDataForGraphicWalkerOutcome(d, eng) ==
    IF Len(d) > 0 /\ Len(d) <= LargeDataset /\ analyzeDataStructureThrows(d)
    THEN Threw
    ELSE Returned(validateDataForGraphicWalker(d, eng))

-----------------------------------------------------------------------------
(* Datasets to classify: built from blocks of records                      *)

s_x == <<"x">>
s_n == <<"n">>
s_m == <<"m">>
s_ts == <<"t","s">>
s_name == <<"n","a","m","e">>
s_grade == <<"g","r","a","d","e">>
s_C == <<"C">>

Cell(f, v) == <<f, v>>

\* a column of the numbers 1 to 5, one record each
OneToFive == [i \in 1..5 |-> Row(<<Cell(s_x, Num(i))>>)]

\* 20 is a number no engine reads as a date
Graded(name) ==
    Row(<<Cell(s_grade, Text(s_A)), Cell(s_name, Text(name)),
          Cell(s_n, Num(20)), Cell(s_m, Num(20))>>)

\* eleven records with eleven distinct names and a quantity
ManyNames ==
    [i \in 1..11 |->
        Row(<<Cell(s_name, Text(<<"N">> \o NatToString(i))), Cell(s_n, Num(20))>>)]

\* one record with eleven text columns and a quantity
Wide ==
    Row([j \in 1..12 |->
            IF j = 12 THEN Cell(s_n, Num(20))
            ELSE Cell(<<"c">> \o NatToString(j), Text(s_A))])

BlocksOf(m) ==
    CASE m = "column" ->
           {OneToFive,
            Repeat(Row(<<Cell(s_x, Num(20))>>), 5),
            Repeat(Row(<<Cell(s_x, At(0))>>), 5),
            <<Row(<<Cell(s_x, Text(s_A))>>)>>,
            <<Row(<<Cell(s_x, Text(s_B))>>)>>,
            Repeat(Row(<<Cell(s_x, Text(s_A))>>), 2),
            <<Row(<<Cell(s_x, Null)>>)>>,
            <<Row(<<>>)>>,
            <<NullRow>>}
      [] m = "columns" ->
           {<<Row(<<Cell(s_ts, At(0)), Cell(s_n, Num(20))>>)>>,
            <<Row(<<Cell(s_name, Text(s_A)), Cell(s_n, Num(20))>>)>>,
            <<Row(<<Cell(s_n, Num(20)), Cell(s_m, Num(20))>>)>>,
            <<Row(<<Cell(s_name, Text(s_A))>>)>>,
            <<Row(<<Cell(s_ts, At(0)), Cell(s_name, Text(s_A))>>)>>,
            <<Row(<<Cell(s_name, Text(s_A)), Cell(s_ts, At(0))>>)>>,
            <<Row(<<Cell(s_n, Num(20))>>)>>,
            <<Row(<<Cell(s_ts, At(0))>>)>>,
            <<Graded(s_A)>>, <<Graded(s_B)>>, <<Graded(s_C)>>}
      \* many categories in one column, and many text columns
      [] m = "legend" ->
           {ManyNames, <<Wide>>,
            <<Row(<<Cell(s_name, Text(s_A)), Cell(s_n, Num(20))>>)>>}
      \* datasets on both sides of the 10,000 records of the validator
      [] m = "large" ->
           {Repeat(Row(<<>>), LargeDataset), <<Row(<<>>)>>,
            <<Row(<<Cell(s_x, Text(s_A))>>)>>,
            <<Row(<<Cell(s_name, Text(s_A)), Cell(s_n, Num(20))>>)>>,
            <<NullRow>>}

ExploreModes == {"column", "columns", "legend", "large"}

\* two blocks reach every case of the "legend" and "large" families
BlocksFor(m) == IF m \in {"legend", "large"} THEN 2 ELSE MaxBlocks

\* nothing applied yet: the outcome of each function, in the order a caller
\* applies them
Unexplored ==
    [classification |-> NoOutcome, best |-> NoOutcome,
     chartType |-> NoOutcome, chart |-> NoOutcome, validation |-> NoOutcome]

InitExplore ==
    /\ mode \in ExploreModes
    \* the numbers of the "legend" and "large" families are no dates to any
    \* engine
    /\ engine \in IF mode \in {"legend", "large"} THEN {"v8"} ELSE Engines
    /\ data = <<>>
    /\ batches = 0
    /\ result = Unexplored
    /\ ViewIdle

AddBlock(block) ==
    /\ result = Unexplored
    /\ batches < BlocksFor(mode)
    /\ data' = data \o block
    /\ batches' = batches + 1
    /\ UNCHANGED <<mode, engine, result>>
    /\ UNCHANGED viewVars

Classify ==
    /\ result.classification = NoOutcome
    /\ result' = [result EXCEPT
                    !.classification = analyzeDataStructureOutcome(data, engine)]
    /\ UNCHANGED <<mode, engine, data, batches>>
    /\ UNCHANGED viewVars

SuggestFields ==
    /\ result.classification.kind = "returned"
    /\ result.best = NoOutcome
    /\ result' = [result EXCEPT
                    !.best = suggestBestFieldsOutcome(result.classification.value)]
    /\ UNCHANGED <<mode, engine, data, batches>>
    /\ UNCHANGED viewVars

SuggestChartType ==
    /\ result.best # NoOutcome
    /\ result.chartType = NoOutcome
    /\ result' = [result EXCEPT
                    !.chartType =
                        suggestChartTypeOutcome(result.classification.value)]
    /\ UNCHANGED <<mode, engine, data, batches>>
    /\ UNCHANGED viewVars

GenerateChart ==
    /\ \/ result.classification = Threw
       \/ result.chartType # NoOutcome
    /\ result.chart = NoOutcome
    /\ result' = [result EXCEPT
                    !.chart = generateDynamicChartOutcome(data, engine)]
    /\ UNCHANGED <<mode, engine, data, batches>>
    /\ UNCHANGED viewVars

Validate ==
    /\ result.chart # NoOutcome
    /\ result.validation = NoOutcome
    /\ result' = [result EXCEPT
                    !.validation =
                        validateDataForGraphicWalkerOutcome(data, engine)]
    /\ UNCHANGED <<mode, engine, data, batches>>
    /\ UNCHANGED viewVars

NextExplore ==
    \/ \E block \in BlocksOf(mode) : AddBlock(block)
    \/ Classify
    \/ SuggestFields
    \/ SuggestChartType
    \/ GenerateChart
    \/ Validate

SpecExplore == InitExplore /\ [][NextExplore]_vars

-----------------------------------------------------------------------------
(* Properties of the classification and of the charts *)

Classified == result.classification.kind = "returned"
Classification == result.classification.value

\* C12 as stated: for every dataset, with a null record or a record lacking
\* columns after the first included, classify returns without throwing, and
\* the type map has exactly the columns of the first record as its entries.
C12_Original ==
    result.classification # NoOutcome =>
       /\ Classified
       /\ DOMAIN Classification.fieldTypes =
             IF Len(data) = 0 THEN {} ELSE Range(Keys(data[1]))

\* C13 as stated: the column of the numbers 1, 2, 3, 4, 5 of a five-record
\* dataset is classified quantitative with min = 1, max = 5 and avg = 3.
C13_Original ==
    Classified /\ data = OneToFive =>
       /\ Classification.fieldTypes[s_x] = "quantitative"
       /\ Classification.fieldStats[s_x].min = 1
       /\ Classification.fieldStats[s_x].max = 5
       /\ Classification.fieldStats[s_x].avg.num
             = 3 * Classification.fieldStats[s_x].avg.den

\* the test isTemporalField applies to one value
ValueParsesAsDate(value, eng) ==
    IF IsString(value)
    THEN MatchesDateFormat(value) \/ DateParseString(value)
    ELSE value.k = "num" /\ DateParseNumeral(value.n, eng)

\* the non-missing values of column f among the first min(10, n) records
SampleValues(f) == SampledValues(FirstN(data, SampleSize), f)

\* C14 as stated: a column is temporal only if every non-missing value of the
\* first min(10, n) records parses as a date, and quantitative only if every
\* such value parses as a finite number, positions 6 to 10 included.
C14_Original ==
    Classified =>
       \A f \in DOMAIN Classification.fieldTypes :
          /\ Classification.fieldTypes[f] = "temporal" =>
                \A i \in 1..Len(SampleValues(f)) :
                   ValueParsesAsDate(SampleValues(f)[i], engine)
          /\ Classification.fieldTypes[f] = "quantitative" =>
                \A i \in 1..Len(SampleValues(f)) :
                   ParsesAsNumber(SampleValues(f)[i])

\* C15: a column with no non-missing sampled value is nominal with unique
\* count 0; a column that has such values and is typed neither temporal nor
\* quantitative is ordinal exactly when its distinct sampled values are at most
\* 20 and fewer than half of its sampled values, and nominal otherwise.
C15_OrdinalOrNominal ==
    Classified =>
       \A f \in DOMAIN Classification.fieldTypes :
          LET values == SampleValues(f)
              distinct == Cardinality(Range(values))
              type == Classification.fieldTypes[f]
          IN /\ Len(values) = 0 =>
                   /\ type = "nominal"
                   /\ Classification.fieldStats[f].uniqueCount = 0
             /\ Len(values) > 0 /\ type \notin {"temporal", "quantitative"} =>
                   /\ type \in {"ordinal", "nominal"}
                   /\ type = "ordinal" <=>
                         (distinct <= 20 /\ 2 * distinct < Len(values))
                   /\ Classification.fieldStats[f].uniqueCount = distinct

\* a text column of five sampled values, two of them distinct, is ordinal
C15_Witness ==
    /\ Classified
    /\ mode = "column"
    /\ s_x \in DOMAIN Classification.fieldTypes
    /\ Classification.fieldTypes[s_x] = "ordinal"
    /\ Len(SampleValues(s_x)) = 5
    /\ Cardinality(Range(SampleValues(s_x))) = 2


\* C16 as stated: the classification of an empty dataset has an empty column
\* list, an empty type map, an empty stats map and the four grouped lists
\* present and empty, and suggestBestFields and suggestChartType applied to it
\* return.
C16_Original ==
    Len(data) = 0 /\ result.classification # NoOutcome =>
       /\ Classified
       /\ Classification.fields = <<>>
       /\ DOMAIN Classification.fieldTypes = {}
       /\ "fieldStats" \in DOMAIN Classification
       /\ DOMAIN Classification.fieldStats = {}
       /\ {"quantitativeFields", "nominalFields", "temporalFields",
           "ordinalFields"} \subseteq DOMAIN Classification.analysis
       /\ Classification.analysis.quantitativeFields = <<>>
       /\ Classification.analysis.nominalFields = <<>>
       /\ Classification.analysis.temporalFields = <<>>
       /\ Classification.analysis.ordinalFields = <<>>
       /\ result.best # Threw
       /\ result.chartType # Threw


\* the same dataset with every column renamed
NewName(f) == <<"c", "o", "l", "_">> \o f
Renamed(d) ==
    [i \in 1..Len(d) |->
        IF d[i].null THEN d[i]
        ELSE Row([j \in 1..Len(d[i].cells) |->
                     <<NewName(d[i].cells[j][1]), d[i].cells[j][2]>>])]

\* C17: the column list, types and stats classify returns are those of the
\* first min(10, n) records alone, so that two datasets that agree on them
\* are classified alike, whether classify throws depends on those records
\* alone, and a renamed column keeps its type.
C17_DependsOnSampleOnly ==
    /\ result.classification # NoOutcome =>
          (Classified <=> ~analyzeDataStructureThrows(FirstN(data, SampleSize)))
    /\ Classified /\ Len(data) > 0 =>
          LET prefix == analyzeDataStructure(FirstN(data, SampleSize), engine)
              renamed == analyzeDataStructure(Renamed(data), engine)
          IN /\ Classification.fields = prefix.fields
             /\ Classification.fieldTypes = prefix.fieldTypes
             /\ Classification.fieldStats = prefix.fieldStats
             /\ \A f \in DOMAIN Classification.fieldTypes :
                   /\ NewName(f) \in DOMAIN renamed.fieldTypes
                   /\ renamed.fieldTypes[NewName(f)] = Classification.fieldTypes[f]

\* a dataset of more than 10 records whose eleventh record holds a value the
\* first ten do not
C17_Witness ==
    /\ Classified
    /\ Len(data) > SampleSize
    /\ Classification.fields = <<s_x>>
    /\ Classification.fieldTypes[s_x] \in {"temporal", "quantitative"}
    /\ Get(data[SampleSize + 1], s_x).k = "text"


SuggestedChartType == result.chartType.kind = "returned"
Grouped == Classification.analysis

\* the classification handed to the advisor holds the four grouped lists
HasGroupedLists == Classified /\ ~GroupedListsMissing(Classification)

\* C18: applied to a classification that holds the four grouped lists,
\* suggestChartType returns line with a temporal and a quantitative field;
\* else bar with a nominal or ordinal field and a quantitative field; else
\* scatter with two quantitative fields; else pie with a nominal or ordinal
\* field; else bar.
C18_ChartTypeLadder ==
    result.chartType # NoOutcome /\ HasGroupedLists =>
       /\ SuggestedChartType
       /\ LET temporal == Len(Grouped.temporalFields)
              quantitative == Len(Grouped.quantitativeFields)
              categorical == Len(Grouped.nominalFields) + Len(Grouped.ordinalFields)
          IN result.chartType.value.chartType =
                IF temporal >= 1 /\ quantitative >= 1 THEN "line"
                ELSE IF categorical >= 1 /\ quantitative >= 1 THEN "bar"
                ELSE IF quantitative >= 2 THEN "scatter"
                ELSE IF categorical >= 1 THEN "pie"
                ELSE "bar"

\* two quantitative fields next to a nominal and an ordinal one: bar, by the
\* second rule, not scatter
C18_Witness ==
    /\ SuggestedChartType
    /\ Len(Grouped.quantitativeFields) = 2
    /\ Len(Grouped.nominalFields) = 1
    /\ Len(Grouped.ordinalFields) = 1
    /\ result.chartType.value.chartType = "bar"


SuggestedFields == result.best.kind = "returned"

\* the chart-type rule that corresponds to each field rule: the first three
\* rules pair off, the fallback pairing goes with the pie and the default bar
RuleOfChart(reasoning) ==
    CASE reasoning = c_line -> r_timeSeries
      [] reasoning = c_bar -> r_categorical
      [] reasoning = c_scatter -> r_correlation
      [] OTHER -> r_default

ChartBuilt == result.chart.kind = "returned"
IsPie(chart) == chart.mark = "arc"

\* C20 as stated: whenever the chart built is a pie chart, the field bound to
\* its color channel is a column classified nominal or ordinal.
C20_Original ==
    ChartBuilt /\ IsPie(result.chart.value) =>
       LET color == result.chart.value.encoding.color
       IN /\ color.field \in DOMAIN Classification.fieldTypes
          /\ Classification.fieldTypes[color.field] \in {"nominal", "ordinal"}
          /\ color.type \in {"nominal", "ordinal"}


IsBar(chart) == chart.mark = "bar"

\* the distinct non-missing values column f holds in the dataset
CategoriesOf(f) ==
    {Get(data[i], f) : i \in {j \in 1..Len(data) : ~data[j].null}}
       \ {Null, Undef, EmptyStr}

\* C21 as stated: in a bar chart the y encoding is aggregated by sum when the
\* y field is quantitative and by count otherwise, the color channel is bound
\* to the x field, and the legend is suppressed exactly when the x field has
\* more than 10 distinct categories.
C21_Original ==
    ChartBuilt /\ IsBar(result.chart.value) =>
       LET encoding == result.chart.value.encoding
           yQuantitative ==
               /\ encoding.y.field \in DOMAIN Classification.fieldTypes
               /\ Classification.fieldTypes[encoding.y.field] = "quantitative"
       IN /\ encoding.y.aggregate = IF yQuantitative THEN "sum" ELSE "count"
          /\ encoding.color.field = encoding.x.field
          /\ ~encoding.color.legend
                <=> Cardinality(CategoriesOf(encoding.x.field)) > 10


\* C22 as stated: for the empty dataset the chart builder returns the
\* placeholder, a text mark with no encoding and no data, and for every
\* dataset it returns a chart spec without throwing.
C22_Original ==
    result.chart # NoOutcome =>
       /\ ChartBuilt
       /\ Len(data) = 0 =>
             /\ result.chart.value.mark = "text"
             /\ ~result.chart.value.hasData
             /\ "encoding" \notin DOMAIN result.chart.value
       /\ Len(data) > 0 =>
             /\ result.chart.value.mark \in {"bar", "line", "circle", "arc"}
             /\ result.chart.value.hasData


Validated == result.validation.kind = "returned"

\* C23 as stated: validate returns isValid = false exactly when the dataset
\* is empty or has no detected column, whatever the record count; isValid =
\* true with suggestions when there are more than 10,000 records or exactly
\* one column; isValid = true with no suggestion otherwise.
C23_Original ==
    Validated =>
       LET columns == IF Len(data) = 0 THEN 0 ELSE Len(Keys(data[1]))
           validation == result.validation.value
       IN /\ ~validation.isValid <=> (Len(data) = 0 \/ columns = 0)
          /\ validation.isValid /\ (Len(data) > 10000 \/ columns = 1)
                => validation.suggestions > 0
          /\ validation.isValid /\ ~(Len(data) > 10000 \/ columns = 1)
                => validation.suggestions = 0


IsScatter(chart) == chart.mark = "circle"

\* C30: every scatter chart that generateDynamicChart builds has the constant
\* point color and no field on its color channel: the scatter type is chosen
\* only when the dataset has no nominal and no ordinal column, and two
\* quantitative ones.
C30_ScatterColorIsConstant ==
    ChartBuilt /\ IsScatter(result.chart.value) =>
       /\ result.chart.value.encoding.color = [value |-> c_blue]
       /\ Classified
       /\ Grouped.nominalFields = <<>>
       /\ Grouped.ordinalFields = <<>>
       /\ Len(Grouped.quantitativeFields) >= 2
       /\ result.chartType = Returned([chartType |-> "scatter",
                                       reasoning |-> c_scatter])

\* two numeric columns: a scatter chart in the constant color
C30_Witness ==
    /\ ChartBuilt
    /\ IsScatter(result.chart.value)
    /\ result.chart.value.encoding.color = [value |-> c_blue]
    /\ Len(Grouped.quantitativeFields) = 2
    /\ result.chart.value.encoding.x.type = "quantitative"
    /\ result.chart.value.encoding.y.type = "quantitative"
=============================================================================
